---- MODULE Spec2Model ----
(***************************************************************************)
(* The useQuery / preloadQuery hooks of hydrogen                           *)
(* (packages/hydrogen/src/foundation/useQuery/hooks.ts): the module-level  *)
(* map of SuspensePromises, the producer cachedQueryFn with its            *)
(* stale-while-revalidate background task, the delayed-removal timers and  *)
(* the renderers that call useQuery and retry it after a suspension.       *)
(*                                                                         *)
(* Every await of the source is one step: the awaited operation takes its  *)
(* effect and the continuation runs up to the next await.  Steps of        *)
(* different tasks interleave freely (single-threaded, cooperative).       *)
(*                                                                         *)
(* Spec is the module with one query key; SpecCollide is an application    *)
(* that also queries the key the lock of hooks.ts:144 is stored under;     *)
(* SpecLive is a server that keeps serving requests, with fair scheduling. *)
(***************************************************************************)
EXTENDS Integers, Sequences, FiniteSets, TLC

\* ------------------------------------------------------------------ bounds
MaxBridges == 3     \* SuspensePromises held at once
MaxTimers == 2      \* outstanding setTimeout callbacks

Bridges == 1..MaxBridges
\* The render passes that call useQuery.  Each makes one query (the call and
\* its retries), so under Spec at most two reads return and at most two
\* removals happen: no run constructs more than three SuspensePromises.
\* Under SpecLive a pass that ended is followed by the next request's.
Renderers == {"r1", "r2"}
QueryKeys == {<<"products">>}
CachedValue == "v1"             \* output held by the Cache Store initially
QueryError == "e1"              \* the error queryFn may reject with

PENDING == "pending"
SUCCESS == "success"
ERROR == "error"

VARIABLES
    hasCache,           \* getCache() is truthy
    cache,              \* the Cache Store: store key -> entry
    suspensePromises,   \* hooks.ts:12, cache key -> bridge id (0: no entry)
    nBridges,           \* SuspensePromises constructed so far
    bridge,             \* bridge id -> SuspensePromise and its producer
    task,               \* bridge id -> the function its producer handed to runDelayedFunction
    timers,             \* bridge id -> outstanding setTimeout callbacks scheduled by reads of it
    rend,               \* render pass -> its query
    ret,                \* the useQuery / preloadQuery call made by the last step, if any
    windowCalls         \* query key -> background queryFn calls since the entry went stale

vars == <<hasCache, cache, suspensePromises, nBridges, bridge, task, timers,
          rend, ret, windowCalls>>

\* ------------------------------------------------------------- Cache Store
RECURSIVE Join(_, _)
Join(key, sep) ==
    IF key = <<>> THEN ""
    ELSE IF Len(key) = 1 THEN Head(key)
    ELSE Head(key) \o sep \o Join(Tail(key), sep)

\* hashKey: the parts of the key joined into one string
HashKey(key) == Join(key, "")

\* `lock-${key}`: a template literal stringifies an array with commas
LockKey(key) == <<"lock-" \o Join(key, ",")>>

StoreKeys == {HashKey(k) : k \in QueryKeys} \cup {HashKey(LockKey(k)) : k \in QueryKeys}

NoEntry == [present |-> FALSE, output |-> "", stale |-> FALSE]
FreshEntry(v) == [present |-> TRUE, output |-> v, stale |-> FALSE]

\* getItemFromCache(key): undefined without a cache, else [output, response]
GetItemFromCache(key) == IF hasCache THEN cache[HashKey(key)] ELSE NoEntry

\* isStale(response)
IsStale(e) == e.stale

\* setItemInCache(key, value): no effect without a cache
SetItemInCache(c, key, v) ==
    IF hasCache THEN [c EXCEPT ![HashKey(key)] = FreshEntry(v)] ELSE c

\* deleteItemFromCache(key)
DeleteItemFromCache(c, key) ==
    IF hasCache THEN [c EXCEPT ![HashKey(key)] = NoEntry] ELSE c

\* ------------------------------------------------------------------ records
NoBridge == [key |-> <<>>, status |-> "none", result |-> "", pc |-> "none",
             read |-> "none", got |-> "", qf |-> "none"]

\* new SuspensePromise(cachedQueryFn, maxAge): the producer starts at once and
\* runs up to `await getItemFromCache(key)`
NewBridge(k) == [key |-> k, status |-> PENDING, result |-> "", pc |-> "readCache",
                 read |-> "none", got |-> "", qf |-> "none"]

\* SuspensePromise: the producer's promise settles and the status follows
Fulfil(br, v) == [br EXCEPT !.status = SUCCESS, !.result = v]
Fail(br, e) == [br EXCEPT !.status = ERROR, !.result = e]

NoTask == [kind |-> "none", pc |-> "none", output |-> "", calls |-> 0, outcome |-> ""]
NoQuery == [st |-> "idle", key |-> <<>>, on |-> 0, seen |-> {}, susp |-> FALSE]
NoCall == [op |-> "none", key |-> <<>>, bridge |-> 0, created |-> FALSE,
           outcome |-> "", value |-> "", seen |-> {}]

\* --------------------------------------------------------------------- Init
InitEntries == {NoEntry, FreshEntry(CachedValue),
                [present |-> TRUE, output |-> CachedValue, stale |-> TRUE]}

Init ==
    /\ hasCache \in BOOLEAN
    /\ cache \in [StoreKeys -> InitEntries]
    /\ \A k \in QueryKeys : cache[HashKey(LockKey(k))] = NoEntry
    /\ hasCache = FALSE => \A sk \in StoreKeys : cache[sk] = NoEntry
    /\ suspensePromises = [ck \in {HashKey(k) : k \in QueryKeys} |-> 0]
    /\ nBridges = 0
    /\ bridge = [b \in Bridges |-> NoBridge]
    /\ task = [b \in Bridges |-> NoTask]
    /\ timers = [b \in Bridges |-> 0]
    /\ rend = [r \in Renderers |-> NoQuery]
    /\ ret = NoCall
    /\ windowCalls = [k \in QueryKeys |-> 0]

\* ------------------------------------------------------------ entry points
\* faulty variant: the lookup never finds the entry
NeverHit(ck) == FALSE

\* getSuspensePromise, hooks.ts:103-104: is there an entry for the cache key
GetSuspensePromiseHit(ck) == suspensePromises[ck] # 0

\* queryFn is the caller's: every call of it resolves to a value of its own
\* (the call made by the producer of bridge b, and the call made by the
\* background task of bridge b), or rejects with QueryError
Fetched(b) == "f" \o ToString(b)
Regenerated(b) == "g" \o ToString(b)

RECURSIVE Sum(_, _)
Sum(f, S) == IF S = {} THEN 0
             ELSE LET x == CHOOSE y \in S : TRUE IN f[x] + Sum(f, S \ {x})

\* faulty variant: the ERROR branch returns the stored result instead of throwing it
ErrorReturned(status) ==
    CASE status = PENDING -> "suspend"
      [] status = ERROR -> "return"
      [] status = SUCCESS -> "return"

\* faulty variant: the SUCCESS comparison never matches and the call falls
\* through to the throw of hooks.ts:61
SuccessFallsThrough(status) ==
    CASE status = PENDING -> "suspend"
      [] status = ERROR -> "throw"
      [] status = SUCCESS -> "throw"

\* useQuery, hooks.ts:36-59: what the call does with the status it reads
UseQueryOutcome(status) ==
    CASE status = PENDING -> "suspend"
      [] status = ERROR -> "throw"
      [] status = SUCCESS -> "return"

\* faulty variant: the getCache() test is dropped and every removal is left
\* to a timer
AlwaysDelayed == TRUE

\* useQuery, hooks.ts:49-57: with a cache the removal is left to a timer
RemovalIsDelayed == hasCache

\* A renderer calls useQuery(k): its first call of a query, or the retry
\* after the promise it suspended on has settled.  A call that returns or
\* throws ends the render pass.
UseQuery(r, k) ==
    LET ck == HashKey(k)
        hit == GetSuspensePromiseHit(ck)
        b == IF hit THEN suspensePromises[ck] ELSE nBridges + 1
        status == IF hit THEN bridge[b].status ELSE PENDING
        out == UseQueryOutcome(status)
        result == IF hit THEN bridge[b].result ELSE ""
    IN  /\ \/ rend[r].st = "idle"
           \/ /\ rend[r].st = "suspended"
              /\ k = rend[r].key
              /\ bridge[rend[r].on].status # PENDING
        /\ hit \/ nBridges < MaxBridges
        /\ (out = "return" /\ RemovalIsDelayed) => Sum(timers, Bridges) < MaxTimers
        /\ nBridges' = IF hit THEN nBridges ELSE nBridges + 1
        /\ bridge' = IF hit THEN bridge ELSE [bridge EXCEPT ![b] = NewBridge(k)]
        /\ timers' = IF out = "return" /\ RemovalIsDelayed
                     THEN [timers EXCEPT ![b] = @ + 1] ELSE timers
        /\ suspensePromises' =
               IF out = "return" /\ ~RemovalIsDelayed
               THEN [suspensePromises EXCEPT ![ck] = 0]
               ELSE [suspensePromises EXCEPT ![ck] = b]
        /\ rend' = [rend EXCEPT ![r] =
               [st |-> CASE out = "suspend" -> "suspended"
                         [] out = "throw" -> "threw"
                         [] out = "return" -> "returned",
                key |-> k, on |-> b, seen |-> @.seen \cup {b},
                susp |-> @.susp \/ out = "suspend"]]
        /\ ret' = [op |-> "useQuery", key |-> k, bridge |-> b, created |-> ~hit,
                   outcome |-> out, value |-> IF out = "suspend" THEN "" ELSE result,
                   seen |-> rend[r].seen \cup {b}]
        /\ UNCHANGED <<hasCache, cache, task, windowCalls>>

\* faulty variant: preloadQuery goes through useQuery's status branches and,
\* with no cache, removes an entry it finds in SUCCESS
PreloadThroughUseQuery(k) ==
    LET ck == HashKey(k)
        hit == GetSuspensePromiseHit(ck)
        b == IF hit THEN suspensePromises[ck] ELSE nBridges + 1
    IN  /\ hit \/ nBridges < MaxBridges
        /\ nBridges' = IF hit THEN nBridges ELSE nBridges + 1
        /\ bridge' = IF hit THEN bridge ELSE [bridge EXCEPT ![b] = NewBridge(k)]
        /\ suspensePromises' =
               IF hit /\ bridge[b].status = SUCCESS /\ ~RemovalIsDelayed
               THEN [suspensePromises EXCEPT ![ck] = 0]
               ELSE [suspensePromises EXCEPT ![ck] = b]
        /\ ret' = [op |-> "preloadQuery", key |-> k, bridge |-> b, created |-> ~hit,
                   outcome |-> "void", value |-> "", seen |-> {}]
        /\ UNCHANGED <<hasCache, cache, task, timers, rend, windowCalls>>

\* preloadQuery, hooks.ts:67-77
PreloadQuery(k) ==
    LET ck == HashKey(k)
        hit == GetSuspensePromiseHit(ck)
        b == IF hit THEN suspensePromises[ck] ELSE nBridges + 1
    IN  /\ hit \/ nBridges < MaxBridges
        /\ nBridges' = IF hit THEN nBridges ELSE nBridges + 1
        /\ bridge' = IF hit THEN bridge ELSE [bridge EXCEPT ![b] = NewBridge(k)]
        /\ suspensePromises' = [suspensePromises EXCEPT ![ck] = b]
        /\ ret' = [op |-> "preloadQuery", key |-> k, bridge |-> b, created |-> ~hit,
                   outcome |-> "void", value |-> "", seen |-> {}]
        /\ UNCHANGED <<hasCache, cache, task, timers, rend, windowCalls>>

\* the setTimeout callback of hooks.ts:50-54, scheduled by a read of bridge b
TimerFire(b) ==
    LET ck == HashKey(bridge[b].key)
    IN  /\ timers[b] > 0
        /\ timers' = [timers EXCEPT ![b] = @ - 1]
        /\ suspensePromises' = IF suspensePromises[ck] # 0
                               THEN [suspensePromises EXCEPT ![ck] = 0]
                               ELSE suspensePromises
        /\ ret' = NoCall
        /\ UNCHANGED <<hasCache, cache, nBridges, bridge, task, rend, windowCalls>>

\* ---------------------------------------------------------------- producer
\* faulty variant: the stale branch falls through to `await generateNewOutput()`
ReturnsFreshOnly(e) == e.present /\ ~IsStale(e)

\* cachedQueryFn, hooks.ts:134,163: with a cache response the producer returns its output
ReturnsCached(e) == e.present

\* faulty variant: the staleness test is dropped
RegeneratesAnyResponse(e) == e.present

\* cachedQueryFn, hooks.ts:134,140: a stale cache response starts the background task
StartsRegeneration(e) == e.present /\ IsStale(e)

\* the task handed to runDelayedFunction at hooks.ts:146, run up to its first await
RegenTask == [kind |-> "regen", pc |-> "lockRead", output |-> "", calls |-> 0,
              outcome |-> ""]

\* the task handed to runDelayedFunction at hooks.ts:171
WriteTask(v) == [kind |-> "write", pc |-> "write", output |-> v, calls |-> 0,
                 outcome |-> ""]

\* `await getItemFromCache(key)` of hooks.ts:128 completes and cachedQueryFn
\* runs on: to its return (163) or to `await generateNewOutput()` (166)
CacheRead(b) ==
    LET e == GetItemFromCache(bridge[b].key)
        read == IF ~e.present THEN "miss" ELSE IF IsStale(e) THEN "stale" ELSE "fresh"
    IN  /\ bridge[b].pc = "readCache"
        /\ task' = IF StartsRegeneration(e) THEN [task EXCEPT ![b] = RegenTask] ELSE task
        /\ bridge' = [bridge EXCEPT ![b] =
               IF ReturnsCached(e)
               THEN Fulfil([@ EXCEPT !.pc = "done", !.read = read, !.got = e.output],
                           e.output)
               ELSE [@ EXCEPT !.pc = "queryFn", !.read = read, !.got = e.output,
                              !.qf = "pending"]]
        /\ ret' = NoCall
        /\ UNCHANGED <<hasCache, cache, suspensePromises, nBridges, timers, rend,
                       windowCalls>>

\* queryFn of hooks.ts:166 resolves: the write is handed over, the producer returns
QueryFnResolve(b) ==
    LET v == Fetched(b) IN
    /\ bridge[b].pc = "queryFn"
    /\ bridge' = [bridge EXCEPT ![b] =
                     Fulfil([@ EXCEPT !.pc = "done", !.qf = "resolved"], v)]
    /\ task' = [task EXCEPT ![b] = WriteTask(v)]
    /\ ret' = NoCall
    /\ UNCHANGED <<hasCache, cache, suspensePromises, nBridges, timers, rend,
                   windowCalls>>

\* queryFn of hooks.ts:166 rejects: cachedQueryFn rejects with the error
QueryFnReject(b) ==
    /\ bridge[b].pc = "queryFn"
    /\ bridge' = [bridge EXCEPT ![b] =
                     Fail([@ EXCEPT !.pc = "done", !.qf = "rejected"], QueryError)]
    /\ ret' = NoCall
    /\ UNCHANGED <<hasCache, cache, suspensePromises, nBridges, task, timers, rend,
                   windowCalls>>

\* the fire-and-forget setItemInCache of hooks.ts:171-174 completes
PlainWrite(b) ==
    /\ task[b].kind = "write" /\ task[b].pc = "write"
    /\ cache' = SetItemInCache(cache, bridge[b].key, task[b].output)
    /\ task' = [task EXCEPT ![b].pc = "done"]
    /\ windowCalls' = IF hasCache THEN [windowCalls EXCEPT ![bridge[b].key] = 0]
                      ELSE windowCalls
    /\ ret' = NoCall
    /\ UNCHANGED <<hasCache, suspensePromises, nBridges, bridge, timers, rend>>

\* ------------------------------------------------- background regeneration
\* faulty variant: the task never sees the lock
LockNeverSeen(k) == FALSE

\* hooks.ts:148-149: a lock entry makes the task return
LockExists(k) == GetItemFromCache(LockKey(k)).present

\* faulty variant: no finally clause, the rejection ends the task
RejectSkipsFinally == "done"

\* faulty variant: the write sits in the finally clause and runs after a rejection too
RejectStillWrites == "write"

\* hooks.ts:155-159: a rejected queryFn is logged and the finally clause runs
AfterRegenReject == "delete"

\* hooks.ts:154-159: a failed write of the fresh output is caught the same way
AfterWriteFailure == "delete"

Regen(b, pc) == task[b].kind = "regen" /\ task[b].pc = pc

\* `await getItemFromCache(lockKey)` of hooks.ts:148 completes
RegenLockRead(b) ==
    /\ Regen(b, "lockRead")
    /\ task' = [task EXCEPT ![b].pc = IF LockExists(bridge[b].key)
                                       THEN "done" ELSE "lockSet",
                            ![b].outcome = IF LockExists(bridge[b].key)
                                            THEN "aborted" ELSE @]
    /\ ret' = NoCall
    /\ UNCHANGED <<hasCache, cache, suspensePromises, nBridges, bridge, timers,
                   rend, windowCalls>>

\* `await setItemInCache(lockKey, true)` of hooks.ts:151 completes and the task
\* calls queryFn (153)
RegenLockSet(b) ==
    LET k == bridge[b].key
    IN  /\ Regen(b, "lockSet")
        /\ cache' = SetItemInCache(cache, LockKey(k), "true")
        /\ task' = [task EXCEPT ![b].pc = "queryFn", ![b].calls = 1]
        /\ windowCalls' = IF IsStale(GetItemFromCache(k))
                          THEN [windowCalls EXCEPT ![k] = @ + 1]
                          ELSE windowCalls
        /\ ret' = NoCall
        /\ UNCHANGED <<hasCache, suspensePromises, nBridges, bridge, timers, rend>>

\* queryFn of hooks.ts:153 resolves
RegenResolve(b) ==
    /\ Regen(b, "queryFn")
    /\ task' = [task EXCEPT ![b].pc = "write", ![b].output = Regenerated(b)]
    /\ ret' = NoCall
    /\ UNCHANGED <<hasCache, cache, suspensePromises, nBridges, bridge, timers,
                   rend, windowCalls>>

\* queryFn of hooks.ts:153 rejects
RegenReject(b) ==
    /\ Regen(b, "queryFn")
    /\ task' = [task EXCEPT ![b].pc = AfterRegenReject, ![b].outcome = "rejected"]
    /\ ret' = NoCall
    /\ UNCHANGED <<hasCache, cache, suspensePromises, nBridges, bridge, timers,
                   rend, windowCalls>>

\* faulty variant: the write stores the `output` of the enclosing scope
\* (hooks.ts:135), the stale output the task's own `output` shadows
OuterOutput(b) == bridge[b].got

\* hooks.ts:153-154: the regeneration writes the output its own queryFn call
\* resolved to
RegenOutput(b) == task[b].output

\* `await setItemInCache(key, output, cache)` of hooks.ts:154 completes
RegenWrite(b) ==
    LET k == bridge[b].key
    IN  /\ Regen(b, "write")
        /\ cache' = SetItemInCache(cache, k, RegenOutput(b))
        /\ task' = [task EXCEPT ![b].pc = "delete", ![b].outcome = "written"]
        /\ windowCalls' = [windowCalls EXCEPT ![k] = 0]
        /\ ret' = NoCall
        /\ UNCHANGED <<hasCache, suspensePromises, nBridges, bridge, timers, rend>>

\* `await setItemInCache(key, output, cache)` of hooks.ts:154 throws (an output
\* the store cannot serialise)
RegenWriteFail(b) ==
    /\ Regen(b, "write")
    /\ task' = [task EXCEPT ![b].pc = AfterWriteFailure, ![b].outcome = "writeFailed"]
    /\ ret' = NoCall
    /\ UNCHANGED <<hasCache, cache, suspensePromises, nBridges, bridge, timers,
                   rend, windowCalls>>

\* `await deleteItemFromCache(lockKey)` of hooks.ts:158 completes
RegenDelete(b) ==
    /\ Regen(b, "delete")
    /\ cache' = DeleteItemFromCache(cache, LockKey(bridge[b].key))
    /\ task' = [task EXCEPT ![b].pc = "done"]
    /\ ret' = NoCall
    /\ UNCHANGED <<hasCache, suspensePromises, nBridges, bridge, timers, rend,
                   windowCalls>>

\* time passes: the Cache Store's entry for a query key outlives its max-age
Age(k) ==
    LET e == cache[HashKey(k)]
    IN  /\ hasCache /\ e.present /\ ~e.stale
        /\ cache' = [cache EXCEPT ![HashKey(k)].stale = TRUE]
        /\ ret' = NoCall
        /\ UNCHANGED <<hasCache, suspensePromises, nBridges, bridge, task, timers,
                       rend, windowCalls>>

\* --------------------------------------------------------------------- Next
Next ==
    \/ \E r \in Renderers, k \in QueryKeys : UseQuery(r, k)
    \/ \E k \in QueryKeys : PreloadQuery(k)
    \/ \E b \in Bridges : TimerFire(b)
    \/ \E b \in Bridges : CacheRead(b)
    \/ \E b \in Bridges : QueryFnResolve(b)
    \/ \E b \in Bridges : QueryFnReject(b)
    \/ \E b \in Bridges : PlainWrite(b)
    \/ \E b \in Bridges : RegenLockRead(b)
    \/ \E b \in Bridges : RegenLockSet(b)
    \/ \E b \in Bridges : RegenResolve(b)
    \/ \E b \in Bridges : RegenReject(b)
    \/ \E b \in Bridges : RegenWrite(b)
    \/ \E b \in Bridges : RegenWriteFail(b)
    \/ \E b \in Bridges : RegenDelete(b)
    \/ \E k \in QueryKeys : Age(k)

Spec == Init /\ [][Next]_vars

\* ------------------------------------------------------------------ claims
StoreKeyOf(b) == HashKey(bridge[b].key)
LockStoreKeyOf(b) == HashKey(LockKey(bridge[b].key))
InFlight(k) == {b \in Bridges : bridge[b].key = k /\ bridge[b].status = PENDING}
Regenerating(k) == {b \in Bridges : /\ bridge[b].key = k
                                    /\ task[b].kind = "regen"
                                    /\ task[b].pc \in {"queryFn", "write", "delete"}}

\* C1: a useQuery or preloadQuery call made while the key's entry is in the
\* registry and still PENDING obtains that very SuspensePromise, and neither
\* constructs a SuspensePromise nor starts a producer.
C1_Dedup ==
    [][\A k \in QueryKeys :
         LET b == suspensePromises[HashKey(k)]
         IN  (b # 0 /\ bridge[b].status = PENDING /\ ret'.op # "none" /\ ret'.key = k)
             => /\ ret'.bridge = b
                /\ ~ret'.created
                /\ nBridges' = nBridges
                /\ bridge' = bridge]_vars

\* C1 witness: two render passes and a preloadQuery call all hold the one
\* SuspensePromise constructed so far, which is still PENDING.
C1_Witness ==
    /\ nBridges = 1 /\ bridge[1].status = PENDING
    /\ \A r \in Renderers : rend[r].st = "suspended" /\ rend[r].on = 1
    /\ ret.op = "preloadQuery" /\ ret.bridge = 1 /\ ~ret.created

\* C2: at most one unsettled producer per cache key, in every reachable state.
C2_OneProducerPerKey ==
    \A k \in QueryKeys : Cardinality(InFlight(k)) <= 1

\* C3: a query that found no Cache Store entry (every SuspensePromise it
\* obtained read no entry) and has returned made queryFn run exactly once and
\* returned the value that run resolved to.
C3_QueryFnOnce ==
    \A r \in Renderers :
        (/\ rend[r].st = "returned"
         /\ \A b \in rend[r].seen : bridge[b].read = "miss")
        => /\ Cardinality({b \in rend[r].seen : bridge[b].qf # "none"}) = 1
           /\ bridge[rend[r].on].result = Fetched(rend[r].on)

\* C4: a producer that read a present, non-stale entry settles to SUCCESS with
\* the cached output, never calls queryFn and hands nothing to
\* runDelayedFunction; a useQuery call that obtains it returns that output.
C4_FreshHit ==
    \A b \in Bridges :
        bridge[b].read = "fresh"
        => /\ bridge[b].status = SUCCESS
           /\ bridge[b].result = bridge[b].got
           /\ bridge[b].qf = "none"
           /\ task[b] = NoTask
           /\ (ret.op = "useQuery" /\ ret.bridge = b)
              => (ret.outcome = "return" /\ ret.value = bridge[b].got)

\* C4 witness: a render pass has returned the cached output of a fresh entry.
C4_Witness ==
    \E r \in Renderers :
        /\ rend[r].st = "returned"
        /\ bridge[rend[r].on].read = "fresh"
        /\ ret.op = "useQuery" /\ ret.bridge = rend[r].on /\ ret.value = CachedValue

\* C5: a producer that read a stale entry is SUCCESS with the stale output
\* from the step of that read on, whatever the state of its background
\* regeneration; it never waits for queryFn.
C5_StaleNoWait ==
    \A b \in Bridges :
        bridge[b].read = "stale"
        => /\ bridge[b].status = SUCCESS
           /\ bridge[b].result = bridge[b].got
           /\ bridge[b].qf = "none"
           /\ task[b].kind = "regen"

\* C5 witness: a render pass has returned the stale output while the
\* regeneration has not even read the lock.
C5_Witness ==
    \E r \in Renderers :
        /\ rend[r].st = "returned"
        /\ bridge[rend[r].on].read = "stale"
        /\ bridge[rend[r].on].result = CachedValue
        /\ task[rend[r].on].pc = "lockRead"

\* C6: queryFn is called at most once by background regenerations while a
\* key's entry is stale.
C6_OncePerWindow ==
    \A k \in QueryKeys : windowCalls[k] <= 1

\* C7: at most one regeneration per key is between setting and deleting the lock.
C7_MutualExclusion ==
    \A k \in QueryKeys : Cardinality(Regenerating(k)) <= 1

\* C8: when a regeneration that set the lock ends, the lock key is absent from
\* the Cache Store; and the lock is never present with no regeneration between
\* setting and deleting it.
C8_LockReleased ==
    /\ [](\A k \in QueryKeys :
            cache[HashKey(LockKey(k))].present => Regenerating(k) # {})
    /\ [][\A b \in Bridges :
            (/\ task[b].kind = "regen" /\ task[b].calls = 1
             /\ task[b].pc # "done" /\ task'[b].pc = "done")
            => ~cache'[LockStoreKeyOf(b)].present]_vars

\* C8 witness: regenerations have ended after a rejected queryFn, a failed
\* write and a write, and the lock is absent.
C8_Witness ==
    /\ \E b \in Bridges : task[b].pc = "done" /\ task[b].outcome = "rejected"
    /\ \E b \in Bridges : task[b].pc = "done" /\ task[b].outcome = "writeFailed"
    /\ \A k \in QueryKeys : ~cache[HashKey(LockKey(k))].present

\* C9: no step of a regeneration whose queryFn rejected (the rejection, the
\* catch, the finally clause) changes the entry stored under the query key.
C9_RejectLeavesEntry ==
    [][\A b \in Bridges :
         (/\ task'[b] # task[b]
          /\ task[b].outcome = "rejected" \/ task'[b].outcome = "rejected")
         => cache'[StoreKeyOf(b)] = cache[StoreKeyOf(b)]]_vars

\* C9 witness: a regeneration has ended after queryFn rejected and the entry
\* still holds the stale output.
C9_Witness ==
    \E b \in Bridges :
        /\ task[b].pc = "done" /\ task[b].outcome = "rejected"
        /\ cache[StoreKeyOf(b)] = [present |-> TRUE, output |-> CachedValue, stale |-> TRUE]

\* C10: a producer whose queryFn rejected had read no entry, is ERROR with the
\* error, and handed no write to runDelayedFunction; a useQuery call that
\* obtains an ERROR SuspensePromise throws the stored error.
C10_ForegroundError ==
    /\ \A b \in Bridges :
         bridge[b].qf = "rejected"
         => /\ bridge[b].read = "miss"
            /\ bridge[b].status = ERROR
            /\ bridge[b].result = QueryError
            /\ task[b] = NoTask
    /\ (ret.op = "useQuery" /\ ret.bridge # 0 /\ bridge[ret.bridge].status = ERROR)
       => (ret.outcome = "throw" /\ ret.value = QueryError)

\* C10 witness: both render passes have thrown the error of the same
\* SuspensePromise and the Cache Store holds nothing for the key.
C10_Witness ==
    /\ \A r \in Renderers : rend[r].st = "threw" /\ rend[r].on = 1
    /\ bridge[1].qf = "rejected"
    /\ ret.outcome = "throw" /\ ret.value = QueryError
    /\ \A sk \in StoreKeys : cache[sk] = NoEntry

\* C11: a rejected queryFn of a background regeneration reaches no renderer:
\* the SuspensePromise whose producer started the regeneration is SUCCESS with
\* the stale output, a SuspensePromise is ERROR only through its producer's
\* own queryFn call after reading no entry, and a useQuery call throws only
\* such a SuspensePromise's error.
C11_RegenFailureContained ==
    /\ \A b \in Bridges :
         task[b].outcome = "rejected"
         => /\ bridge[b].read = "stale"
            /\ bridge[b].status = SUCCESS
            /\ bridge[b].result = bridge[b].got
    /\ \A b \in Bridges :
         bridge[b].status = ERROR
         => (bridge[b].read = "miss" /\ task[b].kind # "regen")
    /\ \A r \in Renderers :
         rend[r].st = "threw" => bridge[rend[r].on].read = "miss"
    /\ ret.outcome = "throw" => bridge[ret.bridge].read = "miss"

\* C11 witness: the regeneration's queryFn rejected and the task has ended;
\* a render pass has since returned the stale output of that SuspensePromise.
C11_Witness ==
    \E b \in Bridges :
        /\ task[b].outcome = "rejected" /\ task[b].pc = "done"
        /\ bridge[b].status = SUCCESS /\ bridge[b].result = CachedValue
        /\ ret.op = "useQuery" /\ ret.bridge = b
        /\ ret.outcome = "return" /\ ret.value = CachedValue

\* C12: the write of a regeneration stores the output its own queryFn call
\* resolved to as a fresh entry; and once a regeneration started by a read of
\* the stale v1 has written, the query key's entry is present and holds an
\* output a regeneration's queryFn call resolved to, never v1 again.
C12_RegeneratedOutputStored ==
    /\ [](\A b \in Bridges :
            (task[b].outcome = "written" /\ bridge[b].got = CachedValue)
            => /\ cache[StoreKeyOf(b)].present
               /\ cache[StoreKeyOf(b)].output \in {Regenerated(c) : c \in Bridges})
    /\ [][\A b \in Bridges :
            (task[b].pc = "write" /\ task'[b].outcome = "written")
            => cache'[StoreKeyOf(b)] = FreshEntry(Regenerated(b))]_vars

\* C12 witness: the entry was stale with v1, the regeneration has completed
\* and released the lock, and the entry is fresh with the regenerated output.
C12_Witness ==
    \E b \in Bridges :
        /\ bridge[b].read = "stale" /\ bridge[b].got = CachedValue
        /\ task[b].outcome = "written" /\ task[b].pc = "done"
        /\ cache[StoreKeyOf(b)] = FreshEntry(Regenerated(b))
        /\ ~cache[LockStoreKeyOf(b)].present

\* ------------------------------------------------- colliding query keys
\* useQuery's key is the caller's (hooks.ts:25) and the lock key of hooks.ts:144
\* is a query key too, handed to the same Cache Store functions (148, 151,
\* 158): the application below also queries the key "lock-products".
CollideKeys == {<<"products">>, <<"lock-products">>}
CollideStoreKeys == {HashKey(k) : k \in CollideKeys} \cup
                    {HashKey(LockKey(k)) : k \in CollideKeys}

\* a configured cache; "products" has an entry past its max-age, and
\* "lock-products" has none or a cached output of its own
InitCollide ==
    /\ hasCache = TRUE
    /\ cache \in [CollideStoreKeys -> InitEntries]
    /\ cache[HashKey(<<"products">>)] = [FreshEntry(CachedValue) EXCEPT !.stale = TRUE]
    /\ ~cache[HashKey(<<"lock-products">>)].stale
    /\ cache[HashKey(LockKey(<<"lock-products">>))] = NoEntry
    /\ suspensePromises = [ck \in {HashKey(k) : k \in CollideKeys} |-> 0]
    /\ nBridges = 0
    /\ bridge = [b \in Bridges |-> NoBridge]
    /\ task = [b \in Bridges |-> NoTask]
    /\ timers = [b \in Bridges |-> 0]
    /\ rend = [r \in Renderers |-> NoQuery]
    /\ ret = NoCall
    /\ windowCalls = [k \in CollideKeys |-> 0]

\* the application calls useQuery only, its queryFn resolves and the Cache
\* Store accepts every write
NextCollide ==
    \/ \E r \in Renderers, k \in CollideKeys : UseQuery(r, k)
    \/ \E b \in Bridges : TimerFire(b)
    \/ \E b \in Bridges : CacheRead(b)
    \/ \E b \in Bridges : QueryFnResolve(b)
    \/ \E b \in Bridges : PlainWrite(b)
    \/ \E b \in Bridges : RegenLockRead(b)
    \/ \E b \in Bridges : RegenLockSet(b)
    \/ \E b \in Bridges : RegenResolve(b)
    \/ \E b \in Bridges : RegenWrite(b)
    \/ \E b \in Bridges : RegenDelete(b)

SpecCollide == InitCollide /\ [][NextCollide]_vars

\* C13: the store key of a query key never equals the store key of a lock
\* key, for any two keys the program has been called with; so no lock write
\* or delete changes a query key's entry, and no producer reads the lock flag
\* as a cached output.
C13_KeysNeverCollide ==
    /\ [](\A b1, b2 \in Bridges :
            (bridge[b1].key # <<>> /\ bridge[b2].key # <<>>)
            => StoreKeyOf(b1) # LockStoreKeyOf(b2))
    /\ [][\A b \in Bridges :
            (/\ task[b].kind = "regen" /\ task[b].pc \in {"lockSet", "delete"}
             /\ task'[b] # task[b])
            => \A k \in CollideKeys : cache'[HashKey(k)] = cache[HashKey(k)]]_vars
    /\ [](\A b \in Bridges : bridge[b].got # "true")

\* C14: a preloadQuery call returns without throwing and touches nothing but
\* the registry: it changes no Cache Store entry, no task, no timer and no
\* render pass; if the key has an entry, whatever its status, the registry and
\* every SuspensePromise stay as they are and none is constructed; otherwise
\* exactly one SuspensePromise is constructed and registered.  A useQuery call
\* for a key that has an entry obtains that entry and constructs none.
C14_PreloadFrame ==
    /\ [][ret'.op = "preloadQuery" =>
            LET k == ret'.key
                ck == HashKey(k)
                old == suspensePromises[ck]
            IN  /\ ret'.outcome = "void"
                /\ cache' = cache /\ task' = task /\ timers' = timers /\ rend' = rend
                /\ old # 0 => /\ suspensePromises' = suspensePromises
                              /\ bridge' = bridge
                              /\ nBridges' = nBridges
                /\ old = 0 => /\ nBridges' = nBridges + 1
                              /\ suspensePromises' =
                                     [suspensePromises EXCEPT ![ck] = nBridges + 1]
                              /\ bridge' = [bridge EXCEPT ![nBridges + 1] = NewBridge(k)]]_vars
    /\ [][\A k \in QueryKeys :
            LET old == suspensePromises[HashKey(k)]
            IN  (old # 0 /\ ret'.op = "useQuery" /\ ret'.key = k)
                => (ret'.bridge = old /\ ~ret'.created /\ nBridges' = nBridges)]_vars

\* C14 witness: with no cache, a preloadQuery call found the key's entry in
\* SUCCESS and left it registered.
C14_Witness ==
    /\ ~hasCache
    /\ ret.op = "preloadQuery" /\ ~ret.created
    /\ bridge[ret.bridge].status = SUCCESS
    /\ suspensePromises[HashKey(ret.key)] = ret.bridge

\* C15: a useQuery call that reads SUCCESS removes the key's entry within the
\* call and schedules nothing when there is no cache, and with a cache leaves
\* the entry registered and schedules exactly one removal, for the
\* SuspensePromise it read; a call that reads PENDING or ERROR leaves the
\* entry registered and schedules nothing.
C15_CleanupPolicy ==
    [][ret'.op = "useQuery" =>
         LET ck == HashKey(ret'.key)
             b == ret'.bridge
             status == bridge'[b].status
         IN  /\ (status = SUCCESS /\ ~hasCache)
                => (suspensePromises'[ck] = 0 /\ timers' = timers)
             /\ (status = SUCCESS /\ hasCache)
                => /\ suspensePromises'[ck] = b
                   /\ timers' = [timers EXCEPT ![b] = @ + 1]
             /\ status \in {PENDING, ERROR}
                => (suspensePromises'[ck] = b /\ timers' = timers)]_vars

\* C15 witness: with a cache, two calls have read the same SUCCESS
\* SuspensePromise; it is still registered and two removals are scheduled.
C15_Witness ==
    /\ hasCache
    /\ ret.op = "useQuery" /\ ret.outcome = "return"
    /\ timers[ret.bridge] = 2
    /\ suspensePromises[HashKey(ret.key)] = ret.bridge

\* C16: a useQuery call made while the key's entry is registered and SUCCESS
\* returns that SuspensePromise's result within the call: it does not
\* suspend, constructs no SuspensePromise, calls no queryFn and reads no Cache
\* Store entry; and a SUCCESS SuspensePromise never changes, so the value is
\* the one an earlier query resumed with.
C16_SettledReadIsSynchronous ==
    /\ [][\A k \in QueryKeys :
            LET b == suspensePromises[HashKey(k)]
            IN  (/\ b # 0 /\ bridge[b].status = SUCCESS
                 /\ ret'.op = "useQuery" /\ ret'.key = k)
                => /\ ret'.outcome = "return"
                   /\ ret'.bridge = b
                   /\ ret'.value = bridge[b].result
                   /\ bridge' = bridge /\ nBridges' = nBridges
                   /\ cache' = cache /\ task' = task]_vars
    /\ [][\A b \in Bridges :
            bridge[b].status = SUCCESS => bridge'[b] = bridge[b]]_vars

\* C16 witness: no entry was cached; one render pass suspended and resumed
\* with the value queryFn resolved to, and the other pass, which never
\* suspended, returned the same value from the same SuspensePromise.
C16_Witness ==
    \E r1, r2 \in Renderers :
        /\ rend[r1].st = "returned" /\ rend[r1].susp /\ rend[r1].seen = {1}
        /\ rend[r2].st = "returned" /\ ~rend[r2].susp /\ rend[r2].seen = {1}
        /\ bridge[1].read = "miss" /\ bridge[1].result = Fetched(1)
        /\ ret.op = "useQuery" /\ ret.outcome = "return" /\ ret.value = Fetched(1)
        /\ nBridges = 1

\* C17: the step in which a regeneration task reads a present lock ends the
\* task and changes nothing else: the Cache Store (the query key's entry and
\* the lock) stays as it is and queryFn is not called; and a task that ended
\* this way called no queryFn, holds no output and takes no further step.
C17_AbortHasNoEffect ==
    /\ [][\A b \in Bridges :
            (/\ task[b].kind = "regen" /\ task[b].pc = "lockRead"
             /\ cache[LockStoreKeyOf(b)].present
             /\ task'[b] # task[b])
            => /\ task'[b] = [task[b] EXCEPT !.pc = "done", !.outcome = "aborted"]
               /\ cache' = cache
               /\ windowCalls' = windowCalls
               /\ bridge' = bridge]_vars
    /\ [][\A b \in Bridges :
            task[b].outcome = "aborted"
            => (task'[b] = task[b] /\ task[b].pc = "done" /\ task[b].calls = 0
                /\ task[b].output = "")]_vars

\* C17 witness: a task has aborted while another regeneration of the key
\* holds the lock, which is still present.
C17_Witness ==
    \E b, c \in Bridges :
        /\ task[b].outcome = "aborted" /\ task[b].pc = "done"
        /\ Regen(c, "queryFn")
        /\ cache[LockStoreKeyOf(c)] = FreshEntry("true")
        /\ cache[StoreKeyOf(b)].output = CachedValue

\* C18: every step that removes a key's registry entry removes a SUCCESS
\* SuspensePromise, and it is the one whose read asked for the removal: the
\* useQuery call that just read it, or a timer that a read of it scheduled.
C18_RemovesOnlyItsOwnSuccess ==
    [][\A k \in QueryKeys :
         LET old == suspensePromises[HashKey(k)]
         IN  (old # 0 /\ suspensePromises'[HashKey(k)] = 0)
             => /\ bridge[old].status = SUCCESS
                /\ \/ (ret'.op = "useQuery" /\ ret'.bridge = old)
                   \/ timers' = [timers EXCEPT ![old] = @ - 1]]_vars

\* C19: an ERROR SuspensePromise stays registered: no step removes it, a
\* useQuery call for its key throws its stored error, and no SuspensePromise
\* (so no queryFn call) is started for the key after it.
C19_ErrorEntryStays ==
    [][\A k \in QueryKeys :
         LET old == suspensePromises[HashKey(k)]
         IN  (old # 0 /\ bridge[old].status = ERROR)
             => /\ suspensePromises'[HashKey(k)] = old
                /\ nBridges' = nBridges
                /\ (ret'.op = "useQuery" /\ ret'.key = k)
                   => (ret'.outcome = "throw" /\ ret'.value = bridge[old].result)]_vars

\* --------------------------------------------- a server that keeps serving
\* Requests keep coming: a render pass that returned or threw is over, and
\* the next request renders with a new one.
NewPass(r) ==
    /\ rend[r].st \in {"returned", "threw"}
    /\ rend' = [rend EXCEPT ![r] = NoQuery]
    /\ ret' = NoCall
    /\ UNCHANGED <<hasCache, cache, suspensePromises, nBridges, bridge, task,
                   timers, windowCalls>>

\* A SuspensePromise nothing refers to any more is reclaimed: it is settled,
\* its tasks have ended, the registry does not hold it (hooks.ts:52, 56), no
\* timer of its reads is outstanding and no render pass waits on it.  The
\* SuspensePromises constructed after it move down one id.
Ren(x, b) == IF x > b THEN x - 1 ELSE x
Shift(f, b, d) ==
    [i \in Bridges |-> IF i < b THEN f[i] ELSE IF i < MaxBridges THEN f[i + 1] ELSE d]
Collect(b) ==
    /\ b <= nBridges
    /\ bridge[b].status # PENDING
    /\ task[b].kind = "none" \/ task[b].pc = "done"
    /\ timers[b] = 0
    /\ \A ck \in DOMAIN suspensePromises : suspensePromises[ck] # b
    /\ \A r \in Renderers : rend[r].on # b
    /\ nBridges' = nBridges - 1
    /\ bridge' = Shift(bridge, b, NoBridge)
    /\ task' = Shift(task, b, NoTask)
    /\ timers' = Shift(timers, b, 0)
    /\ suspensePromises' =
           [ck \in DOMAIN suspensePromises |-> Ren(suspensePromises[ck], b)]
    /\ rend' = [r \in Renderers |->
                   [rend[r] EXCEPT !.on = Ren(@, b),
                                   !.seen = {Ren(x, b) : x \in @ \ {b}}]]
    /\ ret' = NoCall
    /\ UNCHANGED <<hasCache, cache, windowCalls>>

\* a configured cache whose entry for the key stays fresh
InitLive ==
    /\ hasCache = TRUE
    /\ cache = [sk \in StoreKeys |->
                   IF sk \in {HashKey(k) : k \in QueryKeys}
                   THEN FreshEntry(CachedValue) ELSE NoEntry]
    /\ suspensePromises = [ck \in {HashKey(k) : k \in QueryKeys} |-> 0]
    /\ nBridges = 0
    /\ bridge = [b \in Bridges |-> NoBridge]
    /\ task = [b \in Bridges |-> NoTask]
    /\ timers = [b \in Bridges |-> 0]
    /\ rend = [r \in Renderers |-> NoQuery]
    /\ ret = NoCall
    /\ windowCalls = [k \in QueryKeys |-> 0]

\* the retry of a suspended render pass, made once the promise it waits on
\* has settled
Retry(r) == rend[r].st = "suspended" /\ \E k \in QueryKeys : UseQuery(r, k)

NextLive ==
    \/ \E r \in Renderers, k \in QueryKeys : UseQuery(r, k)
    \/ \E k \in QueryKeys : PreloadQuery(k)
    \/ \E b \in Bridges : TimerFire(b)
    \/ \E b \in Bridges : CacheRead(b)
    \/ \E r \in Renderers : NewPass(r)
    \/ \E b \in Bridges : Collect(b)

\* Cache Store reads settle, timers fire, unreferenced SuspensePromises are
\* reclaimed, and a suspended render pass retries
SpecLive ==
    /\ InitLive
    /\ [][NextLive]_vars
    /\ \A b \in Bridges : WF_vars(TimerFire(b))
    /\ \A b \in Bridges : WF_vars(CacheRead(b))
    /\ \A b \in Bridges : WF_vars(Collect(b))
    /\ \A r \in Renderers : SF_vars(Retry(r))

\* C20: under that fairness, every render pass that suspends eventually
\* returns a value or throws the stored error.
C20_SuspendedEventuallyEnds ==
    \A r \in Renderers :
        (rend[r].st = "suspended") ~> (rend[r].st \in {"returned", "threw"})

====
